---- MODULE Spec2Model ----
(***************************************************************************)
(* State-machine model of main/tusb_msc_main.cpp: app_main's bring-up of   *)
(* the display, the SPI bus, the SD card, the MSC storage and the USB      *)
(* stack, the helper _mount, and the idle poll loop.  Every library call   *)
(* is an action whose return code is an input drawn from {OK, FAIL}; pc is *)
(* the position of the single thread and status says whether it still      *)
(* runs.                                                                    *)
(***************************************************************************)
EXTENDS Naturals, Sequences, FiniteSets

VARIABLES
    pc,               \* position of the main task inside app_main / _mount
    status,           \* "running", "returned", "aborted" or "fault"
    card,             \* static sdmmc_card_t *card: "NULL" or "ptr"
    cardArg,          \* card handles handed to library calls so far
    ret,              \* esp_err_t ret of spi_bus_initialize
    sdspiDevice,      \* result of sdspi_host_init_device (never tested)
    cardInit,         \* result of the most recent sdmmc_card_init
    cardInitFailures, \* failed sdmmc_card_init attempts of this boot (saturating)
    lastDelay,        \* milliseconds of the most recent vTaskDelay, 0 if none
    background,       \* image on the display: 0 none, 1 or 2
    sizeText,         \* size strings drawn on the display (0, 1 or 2)
    storageInit,      \* tinyusb_msc_storage_init_sdmmc succeeded
    mounted,          \* partition mounted at BASE_PATH for the application
    dh,               \* DIR *dh of _mount: "unset", "NULL" or "open"
    dirOpen,          \* a directory handle on BASE_PATH is open
    entries,          \* directory entries readdir has not returned yet
    fatInfo,          \* result of esp_vfs_fat_info (never tested)
    usbInstalled,     \* tinyusb_driver_install succeeded
    wasClicked,       \* M5.BtnA.wasClicked() as of the last M5.update
    btnClick,         \* button A was clicked and no M5.update has sampled it
    restarts,         \* esp_restart calls so far (saturating)
    log,              \* bring-up steps completed in this boot, in order
    failed            \* library calls that failed and were not retried to success

vars == <<pc, status, card, cardArg, ret, sdspiDevice, cardInit,
          cardInitFailures, lastDelay, background, sizeText, storageInit,
          mounted, dh, dirOpen, entries, fatInfo, usbInstalled, wasClicked,
          btnClick, restarts, log, failed>>

allocVars == <<card, cardArg>>
sdVars    == <<ret, sdspiDevice, cardInit, cardInitFailures>>
dispVars  == <<background, sizeText>>
storVars  == <<storageInit, mounted, dh, dirOpen, entries, fatInfo>>
btnVars   == <<wasClicked, btnClick>>

\* Bounds of the model.
MaxFailures == 3
MaxEntries  == 2
MaxRestarts == 2

\* vTaskDelay arguments.
RetryDelayMs == 1000
PollDelayMs  == 100

EspErr == {"OK", "FAIL"}

Running == status = "running"

\* The state of the device at the start of a boot (all but restarts).
BootState ==
    /\ pc = "m5_begin"
    /\ status = "running"
    /\ card = "NULL"
    /\ cardArg = {}
    /\ ret = "unset"
    /\ sdspiDevice = "unset"
    /\ cardInit = "unset"
    /\ cardInitFailures = 0
    /\ lastDelay = 0
    /\ background = 0
    /\ sizeText = 0
    /\ storageInit = FALSE
    /\ mounted = FALSE
    /\ dh = "unset"
    /\ dirOpen = FALSE
    /\ entries = 0
    /\ fatInfo = "unset"
    /\ usbInstalled = FALSE
    /\ wasClicked = FALSE
    /\ btnClick = FALSE
    /\ log = <<>>
    /\ failed = {}

Init == BootState /\ restarts = 0

\* The bring-up steps of app_main in program order.
BringUpOrder ==
    <<"spi_bus_initialize", "sdmmc_card_init", "mount", "size_text",
      "tinyusb_driver_install", "idle_loop">>

Saturate(n, max) == IF n < max THEN n + 1 ELSE n

\* M5.begin() and the text settings of the display.
M5Begin ==
    /\ Running /\ pc = "m5_begin"
    /\ pc' = "push_bg1"
    /\ UNCHANGED <<status, allocVars, sdVars, lastDelay, dispVars, storVars,
                   usbInstalled, btnVars, restarts, log, failed>>

PushImage1_Wrong ==
    /\ Running /\ pc = "push_bg1"
    /\ background' = 2
    /\ pc' = "malloc"
    /\ UNCHANGED <<status, allocVars, sdVars, lastDelay, sizeText, storVars,
                   usbInstalled, btnVars, restarts, log, failed>>

\* M5.Display.pushImage(..., image_data_background_1)
PushImage1 ==
    /\ Running /\ pc = "push_bg1"
    /\ background' = 1
    /\ pc' = "malloc"
    /\ UNCHANGED <<status, allocVars, sdVars, lastDelay, sizeText, storVars,
                   usbInstalled, btnVars, restarts, log, failed>>

\* card = (sdmmc_card_t *)malloc(sizeof(sdmmc_card_t));
Malloc ==
    /\ Running /\ pc = "malloc"
    /\ \E p \in {"NULL", "ptr"} :
          /\ card' = p
          /\ failed' = IF p = "NULL" THEN failed \cup {"malloc"} ELSE failed
    /\ pc' = "card_null_check"
    /\ UNCHANGED <<status, cardArg, sdVars, lastDelay, dispVars, storVars,
                   usbInstalled, btnVars, restarts, log>>

\* if (card == NULL) { ESP_LOGD(...); }  -- logs, and goes on either way
CardNullCheck ==
    /\ Running /\ pc = "card_null_check"
    /\ pc' = "spi_bus_initialize"
    /\ UNCHANGED <<status, allocVars, sdVars, lastDelay, dispVars, storVars,
                   usbInstalled, btnVars, restarts, log, failed>>

\* ret = spi_bus_initialize(...)
SpiBusInitialize ==
    /\ Running /\ pc = "spi_bus_initialize"
    /\ \E r \in EspErr :
          /\ ret' = r
          /\ log' = IF r = "OK" THEN Append(log, "spi_bus_initialize") ELSE log
          /\ failed' = IF r = "OK" THEN failed
                       ELSE failed \cup {"spi_bus_initialize"}
    /\ pc' = "spi_check"
    /\ UNCHANGED <<status, allocVars, sdspiDevice, cardInit, cardInitFailures,
                   lastDelay, dispVars, storVars, usbInstalled, btnVars,
                   restarts>>

SpiCheck_NoReturn ==
    /\ Running /\ pc = "spi_check"
    /\ pc' = "sdspi_host_init_device"
    /\ UNCHANGED <<status, allocVars, sdVars, lastDelay, dispVars, storVars,
                   usbInstalled, btnVars, restarts, log, failed>>

\* if (ret != ESP_OK) { ESP_LOGE(...); return; }
SpiCheck ==
    /\ Running /\ pc = "spi_check"
    /\ IF ret # "OK"
          THEN /\ status' = "returned"
               /\ pc' = pc
          ELSE /\ status' = status
               /\ pc' = "sdspi_host_init_device"
    /\ UNCHANGED <<allocVars, sdVars, lastDelay, dispVars, storVars,
                   usbInstalled, btnVars, restarts, log, failed>>

\* sdspi_host_init_device(&slot_config, &card_handle);  -- result dropped
SdspiHostInitDevice ==
    /\ Running /\ pc = "sdspi_host_init_device"
    /\ \E r \in EspErr :
          /\ sdspiDevice' = r
          /\ failed' = IF r = "OK" THEN failed
                       ELSE failed \cup {"sdspi_host_init_device"}
    /\ pc' = "sdmmc_card_init"
    /\ UNCHANGED <<status, allocVars, ret, cardInit, cardInitFailures,
                   lastDelay, dispVars, storVars, usbInstalled, btnVars,
                   restarts, log>>

\* The outcomes of sdmmc_card_init(&host, card): an error code, or, when card
\* is NULL, whatever the dereference of NULL inside the library produces.
CardInitOutcomes == IF card = "NULL" THEN EspErr \cup {"fault"} ELSE EspErr

\* The call sdmmc_card_init(&host, card) in the condition of the while loop.
SdmmcCardInit ==
    /\ Running /\ pc = "sdmmc_card_init"
    /\ cardArg' = cardArg \cup {card}
    /\ \E r \in CardInitOutcomes :
          IF r = "fault"
             THEN /\ status' = "fault"
                  /\ pc' = pc
                  /\ UNCHANGED <<cardInit, cardInitFailures, log, failed>>
             ELSE /\ status' = status
                  /\ pc' = "card_init_test"
                  /\ cardInit' = r
                  /\ cardInitFailures' =
                        IF r = "OK" THEN cardInitFailures
                        ELSE Saturate(cardInitFailures, MaxFailures)
                  /\ log' = IF r = "OK" THEN Append(log, "sdmmc_card_init")
                            ELSE log
                  /\ failed' = IF r = "OK" THEN failed \ {"sdmmc_card_init"}
                               ELSE failed \cup {"sdmmc_card_init"}
    /\ UNCHANGED <<card, ret, sdspiDevice, lastDelay, dispVars, storVars,
                   usbInstalled, btnVars, restarts>>

CardInitTest_NoRetry ==
    /\ Running /\ pc = "card_init_test"
    /\ pc' = "push_bg2"
    /\ UNCHANGED <<status, allocVars, sdVars, lastDelay, dispVars, storVars,
                   usbInstalled, btnVars, restarts, log, failed>>

\* while (sdmmc_card_init(&host, card) != ESP_OK) { ... }  -- the test
CardInitTest ==
    /\ Running /\ pc = "card_init_test"
    /\ pc' = IF cardInit # "OK" THEN "retry_delay" ELSE "push_bg2"
    /\ UNCHANGED <<status, allocVars, sdVars, lastDelay, dispVars, storVars,
                   usbInstalled, btnVars, restarts, log, failed>>

RetryDelay_PollsButton ==
    /\ Running /\ pc = "retry_delay"
    /\ lastDelay' = RetryDelayMs
    /\ pc' = IF btnClick THEN "esp_restart" ELSE "sdmmc_card_init"
    /\ UNCHANGED <<status, allocVars, sdVars, dispVars, storVars,
                   usbInstalled, btnVars, restarts, log, failed>>

\* ESP_LOGE(...); vTaskDelay(pdMS_TO_TICKS(1000));  -- body of the while loop
RetryDelay ==
    /\ Running /\ pc = "retry_delay"
    /\ lastDelay' = RetryDelayMs
    /\ pc' = "sdmmc_card_init"
    /\ UNCHANGED <<status, allocVars, sdVars, dispVars, storVars,
                   usbInstalled, btnVars, restarts, log, failed>>

\* M5.Display.pushImage(..., image_data_background_2)
PushImage2 ==
    /\ Running /\ pc = "push_bg2"
    /\ background' = 2
    /\ pc' = "print_info"
    /\ UNCHANGED <<status, allocVars, sdVars, lastDelay, sizeText, storVars,
                   usbInstalled, btnVars, restarts, log, failed>>

\* sdmmc_card_print_info(stdout, card): reads through card.
PrintInfoOutcomes == IF card = "NULL" THEN {"done", "fault"} ELSE {"done"}

SdmmcCardPrintInfo ==
    /\ Running /\ pc = "print_info"
    /\ cardArg' = cardArg \cup {card}
    /\ \E r \in PrintInfoOutcomes :
          IF r = "fault"
             THEN status' = "fault" /\ pc' = pc
             ELSE status' = status /\ pc' = "storage_init"
    /\ UNCHANGED <<card, sdVars, lastDelay, dispVars, storVars, usbInstalled,
                   btnVars, restarts, log, failed>>

StorageInit_SkipMount ==
    /\ Running /\ pc = "storage_init"
    /\ cardArg' = cardArg \cup {card}
    /\ \E r \in EspErr :
          IF r = "OK"
             THEN /\ storageInit' = TRUE
                  /\ status' = status
                  /\ pc' = "driver_install"
                  /\ failed' = failed
             ELSE /\ storageInit' = storageInit
                  /\ status' = "aborted"
                  /\ pc' = pc
                  /\ failed' = failed \cup {"tinyusb_msc_storage_init_sdmmc"}
    /\ UNCHANGED <<card, sdVars, lastDelay, dispVars, mounted, dh, dirOpen,
                   entries, fatInfo, usbInstalled, btnVars, restarts, log>>

\* ESP_ERROR_CHECK(tinyusb_msc_storage_init_sdmmc(&config_sdmmc)); then _mount()
StorageInit ==
    /\ Running /\ pc = "storage_init"
    /\ cardArg' = cardArg \cup {card}
    /\ \E r \in EspErr :
          IF r = "OK"
             THEN /\ storageInit' = TRUE
                  /\ status' = status
                  /\ pc' = "mount"
                  /\ failed' = failed
             ELSE /\ storageInit' = storageInit
                  /\ status' = "aborted"
                  /\ pc' = pc
                  /\ failed' = failed \cup {"tinyusb_msc_storage_init_sdmmc"}
    /\ UNCHANGED <<card, sdVars, lastDelay, dispVars, mounted, dh, dirOpen,
                   entries, fatInfo, usbInstalled, btnVars, restarts, log>>

\* _mount: ESP_ERROR_CHECK(tinyusb_msc_storage_mount(BASE_PATH));
StorageMount ==
    /\ Running /\ pc = "mount"
    /\ \E r \in EspErr :
          IF r = "OK"
             THEN /\ mounted' = TRUE
                  /\ status' = status
                  /\ pc' = "opendir"
                  /\ log' = Append(log, "mount")
                  /\ failed' = failed
             ELSE /\ mounted' = mounted
                  /\ status' = "aborted"
                  /\ pc' = pc
                  /\ log' = log
                  /\ failed' = failed \cup {"tinyusb_msc_storage_mount"}
    /\ UNCHANGED <<allocVars, sdVars, lastDelay, dispVars, storageInit, dh,
                   dirOpen, entries, fatInfo, usbInstalled, btnVars, restarts>>

\* _mount: DIR *dh = opendir(BASE_PATH);
Opendir ==
    /\ Running /\ pc = "opendir"
    /\ \/ /\ dh' = "open"
          /\ dirOpen' = TRUE
          /\ entries' \in 0..MaxEntries
          /\ failed' = failed
       \/ /\ dh' = "NULL"
          /\ dirOpen' = dirOpen
          /\ entries' = entries
          /\ failed' = failed \cup {"opendir"}
    /\ pc' = "dh_check"
    /\ UNCHANGED <<status, allocVars, sdVars, lastDelay, dispVars, storageInit,
                   mounted, fatInfo, usbInstalled, btnVars, restarts, log>>

\* _mount: if (!dh) { ESP_LOGE(...); return; }
DhCheck ==
    /\ Running /\ pc = "dh_check"
    /\ IF dh = "NULL"
          THEN pc' = "fat_info" /\ dh' = "unset"
          ELSE pc' = "readdir" /\ dh' = dh
    /\ UNCHANGED <<status, allocVars, sdVars, lastDelay, dispVars, storageInit,
                   mounted, dirOpen, entries, fatInfo, usbInstalled, btnVars,
                   restarts, log, failed>>

\* _mount: while ((d = readdir(dh)) != NULL) { printf(...); }  return;
Readdir ==
    /\ Running /\ pc = "readdir"
    /\ IF entries > 0
          THEN /\ entries' = entries - 1
               /\ pc' = pc
               /\ dh' = dh
          ELSE /\ entries' = entries
               /\ pc' = "fat_info"
               /\ dh' = "unset"
    /\ UNCHANGED <<status, allocVars, sdVars, lastDelay, dispVars, storageInit,
                   mounted, dirOpen, fatInfo, usbInstalled, btnVars, restarts,
                   log, failed>>

\* esp_vfs_fat_info(BASE_PATH, &out_total_bytes, &out_free_bytes);  -- result dropped
EspVfsFatInfo ==
    /\ Running /\ pc = "fat_info"
    /\ \E r \in EspErr :
          /\ fatInfo' = r
          /\ failed' = IF r = "OK" THEN failed
                       ELSE failed \cup {"esp_vfs_fat_info"}
    /\ pc' = "draw_free"
    /\ UNCHANGED <<status, allocVars, sdVars, lastDelay, dispVars, storageInit,
                   mounted, dh, dirOpen, entries, usbInstalled, btnVars,
                   restarts, log>>

\* M5.Display.drawString(free, ...)
DrawFree ==
    /\ Running /\ pc = "draw_free"
    /\ sizeText' = 1
    /\ pc' = "draw_total"
    /\ UNCHANGED <<status, allocVars, sdVars, lastDelay, background, storVars,
                   usbInstalled, btnVars, restarts, log, failed>>

\* M5.Display.drawString(total, ...)
DrawTotal ==
    /\ Running /\ pc = "draw_total"
    /\ sizeText' = 2
    /\ log' = Append(log, "size_text")
    /\ pc' = "driver_install"
    /\ UNCHANGED <<status, allocVars, sdVars, lastDelay, background, storVars,
                   usbInstalled, btnVars, restarts, failed>>

\* ESP_ERROR_CHECK(tinyusb_driver_install(&tusb_cfg));
DriverInstall ==
    /\ Running /\ pc = "driver_install"
    /\ \E r \in EspErr :
          IF r = "OK"
             THEN /\ usbInstalled' = TRUE
                  /\ status' = status
                  /\ pc' = "m5_update"
                  /\ log' = Append(log, "tinyusb_driver_install")
                  /\ failed' = failed
             ELSE /\ usbInstalled' = usbInstalled
                  /\ status' = "aborted"
                  /\ pc' = pc
                  /\ log' = log
                  /\ failed' = failed \cup {"tinyusb_driver_install"}
    /\ UNCHANGED <<allocVars, sdVars, lastDelay, dispVars, storVars, btnVars,
                   restarts>>

\* while (1) { M5.update(); ...  -- samples button A
M5Update ==
    /\ Running /\ pc = "m5_update"
    /\ wasClicked' \in (IF btnClick THEN BOOLEAN ELSE {FALSE})
    /\ btnClick' = FALSE
    /\ log' = IF "idle_loop" \in {log[i] : i \in DOMAIN log} THEN log
              ELSE Append(log, "idle_loop")
    /\ pc' = "btn_check"
    /\ UNCHANGED <<status, allocVars, sdVars, lastDelay, dispVars, storVars,
                   usbInstalled, restarts, failed>>

BtnCheck_NoRestart ==
    /\ Running /\ pc = "btn_check"
    /\ pc' = "poll_delay"
    /\ UNCHANGED <<status, allocVars, sdVars, lastDelay, dispVars, storVars,
                   usbInstalled, btnVars, restarts, log, failed>>

\* if (M5.BtnA.wasClicked()) { esp_restart(); }
BtnCheck ==
    /\ Running /\ pc = "btn_check"
    /\ pc' = IF wasClicked THEN "esp_restart" ELSE "poll_delay"
    /\ UNCHANGED <<status, allocVars, sdVars, lastDelay, dispVars, storVars,
                   usbInstalled, btnVars, restarts, log, failed>>

\* esp_restart(): the device reboots and app_main starts again.
EspRestart ==
    /\ Running /\ pc = "esp_restart"
    /\ pc' = "m5_begin"
    /\ status' = "running"
    /\ card' = "NULL"
    /\ cardArg' = {}
    /\ ret' = "unset"
    /\ sdspiDevice' = "unset"
    /\ cardInit' = "unset"
    /\ cardInitFailures' = 0
    /\ lastDelay' = 0
    /\ background' = 0
    /\ sizeText' = 0
    /\ storageInit' = FALSE
    /\ mounted' = FALSE
    /\ dh' = "unset"
    /\ dirOpen' = FALSE
    /\ entries' = 0
    /\ fatInfo' = "unset"
    /\ usbInstalled' = FALSE
    /\ wasClicked' = FALSE
    /\ btnClick' = FALSE
    /\ log' = <<>>
    /\ failed' = {}
    /\ restarts' = Saturate(restarts, MaxRestarts)

\* vTaskDelay(pdMS_TO_TICKS(100));  -- end of one iteration of the idle loop
PollDelay ==
    /\ Running /\ pc = "poll_delay"
    /\ lastDelay' = PollDelayMs
    /\ pc' = "m5_update"
    /\ UNCHANGED <<status, allocVars, sdVars, dispVars, storVars,
                   usbInstalled, btnVars, restarts, log, failed>>

\* The user clicks button A; nothing notices before the next M5.update.
ButtonClick ==
    /\ ~btnClick
    /\ btnClick' = TRUE
    /\ UNCHANGED <<pc, status, allocVars, sdVars, lastDelay, dispVars,
                   storVars, usbInstalled, wasClicked, restarts, log, failed>>

\* One step of the main task.
Step ==
    \/ M5Begin
    \/ PushImage1
    \/ Malloc
    \/ CardNullCheck
    \/ SpiBusInitialize
    \/ SpiCheck
    \/ SdspiHostInitDevice
    \/ SdmmcCardInit
    \/ CardInitTest
    \/ RetryDelay
    \/ PushImage2
    \/ SdmmcCardPrintInfo
    \/ StorageInit
    \/ StorageMount
    \/ Opendir
    \/ DhCheck
    \/ Readdir
    \/ EspVfsFatInfo
    \/ DrawFree
    \/ DrawTotal
    \/ DriverInstall
    \/ M5Update
    \/ BtnCheck
    \/ EspRestart
    \/ PollDelay

Next == Step \/ ButtonClick

Spec == Init /\ [][Next]_vars

\* The main task is the only task and is always scheduled.
FairSpec == Spec /\ WF_vars(Step)

(***************************************************************************)
(* Positions of the program.                                               *)
(***************************************************************************)
BeforeRetryLoopPcs ==
    {"malloc", "card_null_check", "spi_bus_initialize", "spi_check",
     "sdspi_host_init_device"}

RetryLoopPcs == {"sdmmc_card_init", "card_init_test", "retry_delay"}

MountPcs == {"mount", "opendir", "dh_check", "readdir"}

AfterMountPcs == {"fat_info", "draw_free", "draw_total", "driver_install"}

IdleLoopPcs == {"m5_update", "btn_check", "poll_delay", "esp_restart"}

AfterRetryLoopPcs ==
    {"push_bg2", "print_info", "storage_init"} \cup MountPcs
        \cup AfterMountPcs \cup IdleLoopPcs

IsPrefix(s, t) ==
    /\ Len(s) <= Len(t)
    /\ \A i \in DOMAIN s : s[i] = t[i]

(***************************************************************************)
(* C1: in every boot the bring-up steps complete in the fixed order SPI    *)
(* bus, SD card, mount, size text, USB install, idle loop, each at most    *)
(* once, none before its predecessor; the USB stack is never installed     *)
(* before the filesystem is mounted and the size text drawn.               *)
(***************************************************************************)
C1_BringUpOrder ==
    /\ IsPrefix(log, BringUpOrder)
    /\ usbInstalled => mounted /\ sizeText = 2
    /\ mounted => ret = "OK" /\ cardInit = "OK" /\ storageInit
    /\ pc \in IdleLoopPcs => usbInstalled
    /\ usbInstalled <=> Len(log) >= 5
    /\ mounted <=> Len(log) >= 3

C1_Witness ==
    /\ log = BringUpOrder
    /\ cardInitFailures > 1
    /\ pc = "poll_delay"

(***************************************************************************)
(* C2: the partition is never at once mounted for (or held open by) the    *)
(* application and exposed to the host by an installed USB stack.          *)
(***************************************************************************)
C2_ExclusiveAccess == ~((mounted \/ dirOpen) /\ usbInstalled)

(***************************************************************************)
(* C3: after a library call has failed, the program is only ever at the    *)
(* test of that call's result or in the retry of that call; it never goes  *)
(* on to a later step while a failure stands.                              *)
(***************************************************************************)
HandlingPcs(call) ==
    CASE call = "malloc" -> {"card_null_check"}
      [] call = "spi_bus_initialize" -> {"spi_check"}
      [] call = "sdmmc_card_init" -> RetryLoopPcs
      [] call = "opendir" -> {"dh_check"}
      [] OTHER -> {}

C3_FailureStopsBringUp ==
    Running => \A call \in failed : pc \in HandlingPcs(call)

(***************************************************************************)
(* C4: the SD card probe is retried after a 1000 ms delay for as long as   *)
(* it fails; nothing after the loop is reached unless the most recent      *)
(* probe returned ESP_OK; a probe that returns ESP_OK leads out of the     *)
(* loop, and the loop is left in no other way, so without a successful     *)
(* probe the USB stack is never installed.                                 *)
(***************************************************************************)
C4_RetryUntilSuccess ==
    /\ [](pc \in AfterRetryLoopPcs => cardInit = "OK")
    /\ [](usbInstalled => cardInit = "OK")
    /\ [][pc = "card_init_test" /\ cardInit # "OK" /\ pc' # pc
            => pc' = "retry_delay"]_vars
    /\ [][pc = "retry_delay" /\ pc' # pc
            => pc' = "sdmmc_card_init" /\ lastDelay' = RetryDelayMs]_vars
    /\ [][(pc \in RetryLoopPcs /\ ~(pc' \in RetryLoopPcs))
            => (cardInit = "OK" /\ pc' = "push_bg2")]_vars
    /\ (pc = "card_init_test" /\ cardInit # "OK") ~> (pc = "sdmmc_card_init")
    /\ (pc = "card_init_test" /\ cardInit = "OK") ~> (pc \notin RetryLoopPcs)

C4_Witness ==
    /\ pc = "push_bg2"
    /\ cardInitFailures = MaxFailures
    /\ lastDelay = RetryDelayMs

(***************************************************************************)
(* C5: after tinyusb_driver_install the program only cycles through        *)
(* M5.update, the test of button A and, without a click, a 100 ms delay;   *)
(* a detected click leads to esp_restart in the same iteration, the loop   *)
(* is left only by that restart, and no step of the loop touches the       *)
(* card, the bus, the display, the storage or the USB stack.               *)
(***************************************************************************)
IdleLoopStep ==
    CASE pc = "m5_update"   -> pc' = "btn_check"
      [] pc = "btn_check"   ->
            pc' = IF wasClicked THEN "esp_restart" ELSE "poll_delay"
      [] pc = "poll_delay"  -> pc' = "m5_update" /\ lastDelay' = PollDelayMs
      [] pc = "esp_restart" -> pc' = "m5_begin" /\ ~usbInstalled'

C5_IdleLoop ==
    /\ [](pc \in IdleLoopPcs => usbInstalled /\ Running)
    /\ [](usbInstalled => pc \in IdleLoopPcs)
    /\ [][(pc \in IdleLoopPcs /\ pc' # pc) => IdleLoopStep]_vars
    /\ [][(pc \in IdleLoopPcs /\ pc' \in IdleLoopPcs) =>
            UNCHANGED <<allocVars, sdVars, dispVars, storVars, usbInstalled,
                        failed, status>>]_vars

C5_Witness ==
    /\ restarts > 0
    /\ pc = "poll_delay"
    /\ lastDelay = PollDelayMs
    /\ btnClick

(***************************************************************************)
(* C6: when spi_bus_initialize fails app_main returns at once: no later    *)
(* call is made in that boot, the idle loop is never entered, no restart   *)
(* follows, and the display keeps background image 1.                      *)
(***************************************************************************)
C6_SpiFailureReturns ==
    /\ [](ret = "FAIL" =>
            /\ pc = "spi_check"
            /\ sdspiDevice = "unset" /\ cardInit = "unset" /\ cardArg = {}
            /\ ~storageInit /\ ~mounted /\ ~usbInstalled
            /\ background = 1 /\ sizeText = 0
            /\ log = <<>>)
    /\ [](status = "returned" <=> (ret = "FAIL" /\ ~Running))
    /\ [][ret = "FAIL" =>
            /\ status' = "returned" \/ (Running /\ btnClick' # btnClick)
            /\ UNCHANGED <<pc, allocVars, sdVars, lastDelay, dispVars,
                           storVars, usbInstalled, wasClicked, restarts,
                           log, failed>>]_vars

C6_Witness ==
    /\ status = "returned"
    /\ btnClick
    /\ background = 1

C8_RestartOnlyFromIdleLoop ==
    /\ [](pc = "esp_restart" => usbInstalled /\ wasClicked)
    /\ [][pc' = "m5_begin" /\ pc # "m5_begin"
            => pc = "esp_restart" /\ usbInstalled]_vars
    /\ [][~usbInstalled => UNCHANGED <<restarts, wasClicked>>]_vars
    /\ [][btnClick /\ ~btnClick' => pc = "m5_update" \/ pc = "esp_restart"]_vars

C8_Witness ==
    /\ btnClick
    /\ pc = "retry_delay"
    /\ cardInitFailures = MaxFailures
    /\ restarts = 0

(***************************************************************************)
(* C9: no library call is ever handed a NULL card.                         *)
(***************************************************************************)
C9_CardNeverNull == "NULL" \notin cardArg

(***************************************************************************)
(* C10: once _mount has returned no directory handle on the partition is   *)
(* open, so none is open when the USB stack is installed; and a failed     *)
(* opendir leaves the storage mounted with no handle open.                 *)
(***************************************************************************)
C10_DirHandleClosed ==
    /\ pc \in AfterMountPcs \cup IdleLoopPcs => ~dirOpen
    /\ dh = "NULL" => mounted /\ ~dirOpen

====
